---- MODULE Spec2Model ----
(***************************************************************************)
(* The chat widget of the Personal RAG frontend (frontend/ChatWidget.jsx)  *)
(* and the API helpers it calls (api.js), as a state machine.              *)
(*                                                                         *)
(* React state is the model's state.  Every DOM event runs its handler to  *)
(* the first await and React re-renders before the next event is           *)
(* dispatched, so a handler reads the current state and a control's        *)
(* `disabled` attribute is the current state's.  The part of               *)
(* handleSendMessage after the await is a continuation that keeps the      *)
(* values it closed over (messages.length) and runs when the request       *)
(* settles.  Timestamps are left out: nothing reads them but the render.   *)
(*                                                                         *)
(* Texts are sequences of tokens (one-character strings for what the user  *)
(* types, whole phrases for fixed literals), so that trim() and parseInt() *)
(* are computed character by character.                                    *)
(***************************************************************************)
EXTENDS Integers, Sequences, FiniteSets, TLC

VARIABLES
    messages,     \* useState: the conversation, a sequence of message objects
    input,        \* useState: the textarea's draft
    loading,      \* useState: a request is awaited
    useRag,       \* useState: the "Use RAG Context" checkbox
    topK,         \* useState: the "Top K Results" value
    showContext,  \* useState: the context panel's visibility flag
    lastContext,  \* useState: the context of the last response that had one
    inflight,     \* suspended handleSendMessage calls: closure and posted request
    nRequests,    \* history: how many api.post calls were made
    lastOp,       \* history: which code ran last: "handleSendMessage",
                  \* "clearHistory", "settled" (the continuation of
                  \* handleSendMessage), or "other"
    delivered     \* history: what the backend answered, when lastOp is "settled"

state == <<messages, input, loading, useRag, topK, showContext, lastContext>>
vars == <<messages, input, loading, useRag, topK, showContext, lastContext,
          inflight, nRequests, lastOp, delivered>>

----------------------------------------------------------------------------
(* Bounds *)

\* accepted submits (api.post calls) in one behaviour
MaxSubmits == 2

----------------------------------------------------------------------------
(* JavaScript values *)

\* the value undefined, where a text or a model name is expected
Undefined == "undefined"
UndefinedText == <<Undefined>>

\* numbers: an integer or NaN
Num(n) == [isNaN |-> FALSE, value |-> n]
NaN == [isNaN |-> TRUE, value |-> 0]

\* a context list, or null/undefined
NoContext == [present |-> FALSE, chunks |-> <<>>]
ContextList(chunks) == [present |-> TRUE, chunks |-> chunks]

\* JavaScript truthiness of a context value: any array, the empty one too
Truthy(ctx) == ctx.present

Whitespace == {" ", "\n"}

RECURSIVE TrimStart(_)
TrimStart(s) ==
    IF s # <<>> /\ Head(s) \in Whitespace THEN TrimStart(Tail(s)) ELSE s

RECURSIVE TrimEnd(_)
TrimEnd(s) ==
    IF s # <<>> /\ s[Len(s)] \in Whitespace
    THEN TrimEnd(SubSeq(s, 1, Len(s) - 1))
    ELSE s

\* variant: the draft is tested without trim()
NoTrim(s) == s

\* String.prototype.trim
Trim(s) == TrimEnd(TrimStart(s))

DigitChars == <<"0", "1", "2", "3", "4", "5", "6", "7", "8", "9">>
IsDigit(c) == \E i \in 1..Len(DigitChars) : DigitChars[i] = c
DigitValue(c) == (CHOOSE i \in 1..Len(DigitChars) : DigitChars[i] = c) - 1

RECURSIVE DigitPrefix(_)
DigitPrefix(s) ==
    IF s # <<>> /\ IsDigit(Head(s)) THEN <<Head(s)>> \o DigitPrefix(Tail(s)) ELSE <<>>

RECURSIVE DigitsToInt(_)
DigitsToInt(ds) ==
    IF ds = <<>> THEN 0
    ELSE 10 * DigitsToInt(SubSeq(ds, 1, Len(ds) - 1)) + DigitValue(ds[Len(ds)])

\* parseInt(string): leading whitespace, an optional sign, the leading digits;
\* whatever follows them is ignored, and no digit at all gives NaN
ParseInt(s) ==
    LET t == TrimStart(s)
        signed == t # <<>> /\ Head(t) \in {"-", "+"}
        body == IF signed THEN Tail(t) ELSE t
        ds == DigitPrefix(body)
    IN  IF ds = <<>> THEN NaN
        ELSE Num(IF signed /\ Head(t) = "-" THEN 0 - DigitsToInt(ds) ELSE DigitsToInt(ds))

----------------------------------------------------------------------------
(* Inputs *)

\* what the user may have typed in the textarea
Drafts == { <<>>, <<" ">>, <<"a">>, <<" ", "b">> }

\* e.target.value of the number input: a valid number as typed, or "" for an
\* emptied or invalid field
TopKEntries == { <<>>, <<"7">>, <<"2", "1">> }

\* response.data of a 2xx answer
NullBody == [isNull |-> TRUE, response |-> UndefinedText, model |-> Undefined,
             context_used |-> NoContext]
Body(response, model, ctx) ==
    [isNull |-> FALSE, response |-> response, model |-> model, context_used |-> ctx]
ResponseBodies ==
    { NullBody,
      Body(UndefinedText, Undefined, NoContext),
      Body(<<"answer">>, "sonar", NoContext),
      Body(<<"answer">>, "sonar", ContextList(<<>>)),
      Body(<<"answer">>, "sonar", ContextList(<<"chunk">>)) }

\* what a failed request rejects with: an axios error and its message (network
\* error, non-2xx status and timeout differ in the message only), or a value
\* with no message
Errors ==
    { [message |-> <<"Request failed with status code 500">>],
      [message |-> <<>>] }

\* the history of a step: the code that ran and the answer it was given
NoError == [message |-> <<>>]
NoDelivery == [kind |-> "none", data |-> NullBody, error |-> NoError]
Resolved(data) == [kind |-> "resolved", data |-> data, error |-> NoError]
Rejected(error) == [kind |-> "rejected", data |-> NullBody, error |-> error]
Ran(op) == lastOp' = op /\ delivered' = NoDelivery

----------------------------------------------------------------------------
(* api.js *)

\* the default of chatWithRAG's topK parameter, and useState(5)
DefaultTopK == 5

Post(path, body) == [path |-> path, body |-> body]

\* variant: the caller's topK is dropped and the default sent
chatWithRAGDefaultTopK(query, ragFlag, k) ==
    Post("/chat", [query |-> query, use_rag |-> ragFlag, top_k |-> Num(DefaultTopK)])

chatWithRAG(query, ragFlag, k) ==
    Post("/chat", [query |-> query, use_rag |-> ragFlag, top_k |-> k])

queryWithoutRAG(query) ==
    Post("/query-without-rag", [query |-> query])

----------------------------------------------------------------------------
(* ChatWidget.jsx *)

InitialGreeting ==
    [id |-> 1, type |-> "bot", model |-> Undefined,
     text |-> <<"Hello! I'm Nirbhay's personal RAG assistant.">>]

ClearedGreeting ==
    [id |-> 1, type |-> "bot", model |-> Undefined,
     text |-> <<"Hello! I'm your personal RAG assistant.">>]

Init ==
    /\ messages = <<InitialGreeting>>
    /\ input = <<>>
    /\ loading = FALSE
    /\ useRag = TRUE
    /\ topK = Num(DefaultTopK)
    /\ showContext = FALSE
    /\ lastContext = NoContext
    /\ inflight = <<>>
    /\ nRequests = 0
    /\ lastOp = "other"
    /\ delivered = NoDelivery

\* variant: the textarea is not disabled while a request is awaited
TextareaNeverDisabled == FALSE

\* variant: the Top K input is not disabled with the checkbox off
TopKNeverDisabled == FALSE

\* the `disabled` attributes of the rendered controls
TextareaDisabled == loading
SendDisabled == loading \/ Trim(input) = <<>>
TopKDisabled == ~useRag

\* variant: the textarea takes input while a request is awaited
SetInputWhilePending(d) ==
    /\ input' = d
    /\ Ran("other")
    /\ UNCHANGED <<messages, loading, useRag, topK, showContext, lastContext,
                   inflight, nRequests>>

\* the context panel is rendered: lastContext && showContext
PanelDisplayed == Truthy(lastContext) /\ showContext

\* the Show/Hide Context button is rendered: lastContext &&
ContextButtonShown == Truthy(lastContext)

\* the textarea's onChange
SetInput(d) ==
    /\ ~TextareaDisabled
    /\ input' = d
    /\ Ran("other")
    /\ UNCHANGED <<messages, loading, useRag, topK, showContext, lastContext,
                   inflight, nRequests>>

UserMessage ==
    [id |-> Len(messages) + 1, type |-> "user", text |-> input, model |-> Undefined]

\* variant: every query goes to /chat, the checkbox only sets use_rag
DispatchAlwaysChat == chatWithRAG(input, useRag, topK)

\* the request handleSendMessage awaits
Dispatch ==
    IF useRag THEN chatWithRAG(input, TRUE, topK) ELSE queryWithoutRAG(input)

\* handleSendMessage up to its await
handleSendMessage ==
    IF Trim(input) = <<>>
    THEN UNCHANGED <<messages, input, loading, useRag, topK, showContext,
                     lastContext, inflight, nRequests>>
    ELSE /\ nRequests < MaxSubmits
         /\ messages' = Append(messages, UserMessage)
         /\ input' = <<>>
         /\ loading' = TRUE
         /\ inflight' = Append(inflight, [len |-> Len(messages), req |-> Dispatch])
         /\ nRequests' = nRequests + 1
         /\ UNCHANGED <<useRag, topK, showContext, lastContext>>

\* Enter without Shift in the textarea
handleKeyPress ==
    /\ ~TextareaDisabled
    /\ handleSendMessage
    /\ Ran("handleSendMessage")

\* a click on the send button
SendClick ==
    /\ ~SendDisabled
    /\ handleSendMessage
    /\ Ran("handleSendMessage")

BotMessage(len, data) ==
    [id |-> len + 2, type |-> "bot", text |-> data.response, model |-> data.model]

ErrorPrefix == <<"Error: ">>
FallbackReason == <<"Failed to get response from server">>

ErrorMessage(len, error) ==
    [id |-> len + 2, type |-> "error", model |-> Undefined,
     text |-> ErrorPrefix \o (IF error.message # <<>> THEN error.message
                              ELSE FallbackReason)]

\* reading a property of a null body throws
NullTypeError ==
    [message |-> <<"Cannot read properties of null (reading 'context_used')">>]

RemoveAt(s, i) == SubSeq(s, 1, i - 1) \o SubSeq(s, i + 1, Len(s))

\* variant: setLastContext(response.context_used || null)
StoredContextOrNull(data) ==
    IF Truthy(data.context_used) THEN data.context_used ELSE NoContext

\* variant: a new context is appended to the stored one
StoredContextMerged(data) ==
    IF Truthy(data.context_used)
    THEN ContextList(lastContext.chunks \o data.context_used.chunks)
    ELSE lastContext

\* if (response.context_used) setLastContext(response.context_used)
StoredContext(data) ==
    IF Truthy(data.context_used) THEN data.context_used ELSE lastContext

\* variant: the catch block posts the request once more before giving up
CatchRetries(i, error) ==
    /\ nRequests < MaxSubmits
    /\ nRequests' = nRequests + 1
    /\ UNCHANGED <<messages, input, loading, useRag, topK, showContext,
                   lastContext, inflight>>

\* variant: the catch block only logs, no error message is appended
CatchSilently(i, error) ==
    /\ loading' = FALSE
    /\ inflight' = RemoveAt(inflight, i)
    /\ UNCHANGED <<messages, input, useRag, topK, showContext, lastContext, nRequests>>

\* variant: setLoading(false) at the end of the try block, not in finally
CatchLeavesLoading(i, error) ==
    /\ messages' = Append(messages, ErrorMessage(inflight[i].len, error))
    /\ inflight' = RemoveAt(inflight, i)
    /\ UNCHANGED <<input, loading, useRag, topK, showContext, lastContext, nRequests>>

\* the catch block, then finally
Catch(i, error) ==
    /\ messages' = Append(messages, ErrorMessage(inflight[i].len, error))
    /\ loading' = FALSE
    /\ inflight' = RemoveAt(inflight, i)
    /\ UNCHANGED <<input, useRag, topK, showContext, lastContext, nRequests>>

\* the request of call i is answered 2xx with body data: the rest of the try
\* block, then finally
Resolve(i, data) ==
    /\ lastOp' = "settled"
    /\ delivered' = Resolved(data)
    /\ IF data.isNull
       THEN Catch(i, NullTypeError)
       ELSE /\ lastContext' = StoredContext(data)
            /\ messages' = Append(messages, BotMessage(inflight[i].len, data))
            /\ loading' = FALSE
            /\ inflight' = RemoveAt(inflight, i)
            /\ UNCHANGED <<input, useRag, topK, showContext, nRequests>>

\* the request of call i fails (network error, non-2xx status, timeout):
\* chatWithRAG/queryWithoutRAG rethrow, handleSendMessage catches
Reject(i, error) ==
    /\ lastOp' = "settled"
    /\ delivered' = Rejected(error)
    /\ Catch(i, error)

\* variant: clearing aborts the awaited request
clearHistoryCancels ==
    /\ messages' = <<ClearedGreeting>>
    /\ lastContext' = NoContext
    /\ inflight' = <<>>
    /\ loading' = FALSE
    /\ Ran("clearHistory")
    /\ UNCHANGED <<input, useRag, topK, showContext, nRequests>>

\* variant: clearing also resets the loading flag
clearHistoryResetsLoading ==
    /\ messages' = <<ClearedGreeting>>
    /\ lastContext' = NoContext
    /\ loading' = FALSE
    /\ Ran("clearHistory")
    /\ UNCHANGED <<input, useRag, topK, showContext, inflight, nRequests>>

\* variant: clearing also hides the context panel
clearHistoryHidesPanel ==
    /\ messages' = <<ClearedGreeting>>
    /\ lastContext' = NoContext
    /\ showContext' = FALSE
    /\ Ran("clearHistory")
    /\ UNCHANGED <<input, loading, useRag, topK, inflight, nRequests>>

\* variant: the messages are reset and the stored context is kept
clearHistoryKeepsContext ==
    /\ messages' = <<ClearedGreeting>>
    /\ Ran("clearHistory")
    /\ UNCHANGED <<input, loading, useRag, topK, showContext, lastContext,
                   inflight, nRequests>>

clearHistory ==
    /\ messages' = <<ClearedGreeting>>
    /\ lastContext' = NoContext
    /\ Ran("clearHistory")
    /\ UNCHANGED <<input, loading, useRag, topK, showContext, inflight, nRequests>>

\* the checkbox's onChange: e.target.checked is the flipped value
ToggleRag ==
    /\ useRag' = ~useRag
    /\ Ran("other")
    /\ UNCHANGED <<messages, input, loading, topK, showContext, lastContext,
                   inflight, nRequests>>

\* the number input's onChange
ChangeTopK(entry) ==
    /\ ~TopKDisabled
    /\ topK' = ParseInt(entry)
    /\ Ran("other")
    /\ UNCHANGED <<messages, input, loading, useRag, showContext, lastContext,
                   inflight, nRequests>>

\* variant: the Show/Hide Context button is rendered unconditionally
ToggleContextAlways ==
    /\ showContext' = ~showContext
    /\ Ran("other")
    /\ UNCHANGED <<messages, input, loading, useRag, topK, lastContext,
                   inflight, nRequests>>

\* the Show/Hide Context button, rendered only with a stored context
ToggleContext ==
    /\ ContextButtonShown
    /\ showContext' = ~showContext
    /\ Ran("other")
    /\ UNCHANGED <<messages, input, loading, useRag, topK, lastContext,
                   inflight, nRequests>>

\* the panel's Close button, rendered only with the panel
CloseContext ==
    /\ PanelDisplayed
    /\ showContext' = FALSE
    /\ Ran("other")
    /\ UNCHANGED <<messages, input, loading, useRag, topK, lastContext,
                   inflight, nRequests>>

Settle ==
    \E i \in 1..Len(inflight) :
        \/ \E data \in ResponseBodies : Resolve(i, data)
        \/ \E error \in Errors : Reject(i, error)

Next ==
    \/ \E d \in Drafts : SetInput(d)
    \/ handleKeyPress
    \/ SendClick
    \/ Settle
    \/ clearHistory
    \/ ToggleRag
    \/ \E entry \in TopKEntries : ChangeTopK(entry)
    \/ ToggleContext
    \/ CloseContext

Spec == Init /\ [][Next]_vars

\* every request settles: axios resolves, rejects or times out after 30 s
LiveSpec == Spec /\ WF_vars(Settle)

----------------------------------------------------------------------------
(* Properties *)

\* the number input's min and max attributes
MinTopK == 1
MaxTopK == 20

IsBlank(s) == \A k \in 1..Len(s) : s[k] \in Whitespace
UserCount(ms) == Cardinality({k \in 1..Len(ms) : ms[k].type = "user"})
LastMessage == messages[Len(messages)]

\* steps, told by what they leave behind
HandlerRan == lastOp' = "handleSendMessage"
AcceptedSubmit == HandlerRan /\ ~loading /\ ~IsBlank(input)
Posted == nRequests' = nRequests + 1
Settled == Len(inflight') < Len(inflight)
NewRequest == inflight'[Len(inflight')].req
OneRequestIssued ==
    /\ nRequests' = nRequests + 1
    /\ Len(inflight') = Len(inflight) + 1
    /\ SubSeq(inflight', 1, Len(inflight)) = inflight

\* C1: at most one request is in flight at any time, and while one is pending
\* no step issues a request or adds a user message (the controls that submit
\* are disabled), so a double submit sends one request.
C1_OneRequestInFlight ==
    /\ [](Len(inflight) <= 1)
    /\ [][loading => /\ nRequests' = nRequests
                     /\ Len(inflight') <= Len(inflight)
                     /\ UserCount(messages') <= UserCount(messages)]_vars

\* a second request was accepted after the first settled, and it alone is in flight
C1_Witness ==
    /\ loading
    /\ nRequests = 2
    /\ Len(inflight) = 1
    /\ lastOp = "handleSendMessage"

\* C2: a submit of non-blank text while idle appends exactly one user message
\* (the draft) and issues one request; the request settling appends exactly
\* one message, of type bot or error; no other step appends a message; and
\* every request in flight eventually settles.
C2_OneUserThenOneResponse ==
    /\ [][/\ AcceptedSubmit =>
                /\ messages' = Append(messages, messages'[Len(messages')])
                /\ messages'[Len(messages')].type = "user"
                /\ messages'[Len(messages')].text = input
                /\ OneRequestIssued
          /\ Settled =>
                /\ Len(inflight') = Len(inflight) - 1
                /\ messages' = Append(messages, messages'[Len(messages')])
                /\ messages'[Len(messages')].type \in {"bot", "error"}
          /\ (~AcceptedSubmit /\ ~Settled) => Len(messages') <= Len(messages)
         ]_vars
    /\ (Len(inflight) > 0) ~> (Len(inflight) = 0)

\* the second submit's request has settled: user, response, user, response
C2_Witness ==
    /\ nRequests = 2
    /\ inflight = <<>>
    /\ Len(messages) = 5
    /\ messages[4].type = "user"
    /\ LastMessage.type \in {"bot", "error"}
    /\ lastOp = "settled"

\* C3: handleSendMessage run on an empty or whitespace-only draft changes
\* nothing: no message, no request, pending, draft, context and the rest as
\* they were.
C3_BlankSubmitIsNoOp ==
    [][(HandlerRan /\ IsBlank(input)) => UNCHANGED <<state, inflight, nRequests>>]_vars

\* Enter was pressed on a draft of one space
C3_Witness ==
    /\ lastOp = "handleSendMessage"
    /\ input = <<" ">>
    /\ nRequests = 0
    /\ Len(messages) = 1

\* C4: an accepted submit with useRag false issues exactly one request, to
\* /query-without-rag, whose body is the query alone: no top_k.
C4_NoRagRequest ==
    [][(AcceptedSubmit /\ ~useRag) =>
            /\ OneRequestIssued
            /\ NewRequest.path = "/query-without-rag"
            /\ NewRequest.body = [query |-> input]
            /\ "top_k" \notin DOMAIN NewRequest.body]_vars

C4_Witness ==
    /\ lastOp = "handleSendMessage"
    /\ ~useRag
    /\ Len(inflight) = 1
    /\ inflight[1].req.path = "/query-without-rag"
    /\ inflight[1].req.body.query = <<" ", "b">>

\* C5: an accepted submit with useRag true issues exactly one request, to
\* /chat, with body {query: the draft, use_rag: true, top_k: topK}.
C5_RagRequest ==
    [][(AcceptedSubmit /\ useRag) =>
            /\ OneRequestIssued
            /\ NewRequest.path = "/chat"
            /\ NewRequest.body = [query |-> input, use_rag |-> TRUE, top_k |-> topK]]_vars

\* a /chat request carrying a Top K the user set
C5_Witness ==
    /\ lastOp = "handleSendMessage"
    /\ useRag
    /\ Len(inflight) = 1
    /\ inflight[1].req.path = "/chat"
    /\ inflight[1].req.body.query = <<" ", "b">>
    /\ inflight[1].req.body.top_k = Num(7)

InRange(k) == ~k.isNaN /\ k.value \in MinTopK..MaxTopK

\* C6: the stored topK is always an integer in [1,20], and so is the top_k of
\* every /chat request.
C6_TopKInRange ==
    /\ InRange(topK)
    /\ \A i \in 1..Len(inflight) :
         inflight[i].req.path = "/chat" => InRange(inflight[i].req.body.top_k)

\* C7: right after a successful response that carries a context list, the
\* stored context is exactly that list.
C7_ContextReplaced ==
    (/\ lastOp = "settled"
     /\ delivered.kind = "resolved"
     /\ ~delivered.data.isNull
     /\ delivered.data.context_used.present)
    => lastContext = delivered.data.context_used

\* the second response carried a context list
C7_Witness ==
    /\ lastOp = "settled"
    /\ nRequests = 2
    /\ Len(messages) = 5
    /\ messages[3].type = "bot"
    /\ delivered.kind = "resolved"
    /\ delivered.data.context_used = ContextList(<<"chunk">>)
    /\ lastContext = ContextList(<<"chunk">>)

\* C8: right after clearHistory the list is exactly one message, the greeting
\* (type bot, id 1), and no context is stored.
C8_ClearResets ==
    lastOp = "clearHistory" =>
        /\ Len(messages) = 1
        /\ messages[1].id = 1
        /\ messages[1].type = "bot"
        /\ messages[1].text = ClearedGreeting.text
        /\ lastContext = NoContext

\* cleared after two submits, one still in flight
C8_Witness ==
    /\ lastOp = "clearHistory"
    /\ nRequests = 2
    /\ loading

\* C9: a request that fails appends exactly one message, of type error, and
\* clears pending; right after it the draft can be edited again, and with an
\* error message last and a non-blank draft typed the send button submits.
C9_FailureRecovers ==
    /\ [][(Settled /\ delivered'.kind = "rejected") =>
              /\ messages' = Append(messages, messages'[Len(messages')])
              /\ messages'[Len(messages')].type = "error"
              /\ loading' = FALSE]_vars
    /\ []((lastOp = "settled" /\ delivered.kind = "rejected")
            => (~loading /\ ENABLED SetInput(<<"a">>)))
    /\ []((LastMessage.type = "error" /\ ~IsBlank(input) /\ nRequests < MaxSubmits)
            => ENABLED SendClick)

\* a new submit was accepted right after an error message
C9_Witness ==
    /\ Len(messages) = 4
    /\ messages[3].type = "error"
    /\ messages[4].type = "user"
    /\ loading

\* a 2xx body that is null or has no `response` field
Malformed(data) == data.isNull \/ data.response = UndefinedText

\* C10: right after a 2xx response with a malformed body the message appended
\* is an error message.
C10_MalformedBodyIsError ==
    (lastOp = "settled" /\ delivered.kind = "resolved" /\ Malformed(delivered.data))
    => LastMessage.type = "error"

\* the response delivered carries a context list
DeliveredContext(d) ==
    d.kind = "resolved" /\ ~d.data.isNull /\ d.data.context_used.present

\* C11: clearHistory run while a request is pending leaves the request in
\* flight and pending set; with the list cleared and the request still
\* pending, its settling appends the bot or error message right after the
\* fresh greeting, and a context list it carries is stored.
C11_ClearDoesNotCancel ==
    /\ [][(lastOp' = "clearHistory" /\ loading) =>
              (inflight' = inflight /\ loading')]_vars
    /\ [][(loading /\ messages = <<ClearedGreeting>> /\ Settled) =>
              /\ Len(messages') = 2
              /\ messages'[1] = ClearedGreeting
              /\ messages'[2].type \in {"bot", "error"}
              /\ DeliveredContext(delivered') =>
                    lastContext' = delivered'.data.context_used]_vars

\* after one submit: the greeting of the cleared list, then the stale answer,
\* and its context stored again
C11_Witness ==
    /\ nRequests = 1
    /\ lastOp = "settled"
    /\ Len(messages) = 2
    /\ messages[1] = ClearedGreeting
    /\ messages[2].type = "bot"
    /\ lastContext = ContextList(<<"chunk">>)

\* C12: in every reachable state the ids of the messages are strictly
\* increasing in display order.
C12_IdsIncreasing ==
    \A j, k \in 1..Len(messages) : j < k => messages[j].id < messages[k].id

\* C13: loading is true exactly while a request is in flight; it changes only
\* when a submit is accepted (to true) and when the request settles (to
\* false), and every settling clears it.
C13_PendingWhileInFlight ==
    /\ [](loading <=> Len(inflight) > 0)
    /\ [][/\ loading' # loading =>
                \/ (AcceptedSubmit /\ Posted /\ loading')
                \/ (Settled /\ ~loading')
          /\ Settled => ~loading'
          /\ (AcceptedSubmit /\ Posted) => loading'
          /\ (loading /\ ~Settled) => loading'
         ]_vars

\* the second request failed: nothing in flight, loading cleared
C13_Witness ==
    /\ ~loading
    /\ inflight = <<>>
    /\ nRequests = 2
    /\ lastOp = "settled"
    /\ delivered.kind = "rejected"

\* some edit of the draft
DraftEdit == \E d \in Drafts : SetInput(d)

\* C14 as stated: while a request is pending an edit of the draft is enabled,
\* and no submit is.
C14_DraftEditableWhilePending ==
    loading => (ENABLED DraftEdit /\ ~ENABLED SendClick /\ ~ENABLED handleKeyPress)

\* C14 as amended: while a request is pending neither an edit of the draft
\* nor a submit is enabled; the draft stays as the submit left it, empty, and
\* no request is issued, until the request settles.
C14_NoEditNoSubmitWhilePending ==
    /\ [](loading => /\ ~ENABLED DraftEdit
                     /\ ~ENABLED SendClick
                     /\ ~ENABLED handleKeyPress
                     /\ input = <<>>)
    /\ [][loading => (input' = input /\ nRequests' = nRequests)]_vars

\* pending, with other controls used meanwhile
C14_Witness ==
    /\ loading
    /\ Len(inflight) = 1
    /\ input = <<>>
    /\ lastOp = "other"

\* C15: a step that flips useRag changes nothing else; while useRag is false
\* no edit of Top K is enabled and topK keeps its value, so it is the same
\* when RAG is enabled again.
C15_ToggleRagOnlyFlips ==
    /\ [][useRag' # useRag =>
              UNCHANGED <<messages, input, loading, topK, showContext,
                          lastContext, inflight, nRequests>>]_vars
    /\ [][~useRag => topK' = topK]_vars
    /\ [](~useRag => \A entry \in TopKEntries : ~ENABLED ChangeTopK(entry))

\* RAG switched off after a conversation, with the Top K the user had set
C15_Witness ==
    /\ ~useRag
    /\ topK = Num(7)
    /\ Len(messages) = 3
    /\ lastOp = "other"

\* C16: showContext is flipped only with a stored context, and by a step that
\* changes nothing else; the toggle is enabled exactly when a context is
\* stored, and with none stored the panel is not displayed.
C16_ToggleNeedsContext ==
    /\ [][showContext' # showContext =>
              /\ Truthy(lastContext)
              /\ UNCHANGED <<messages, input, loading, useRag, topK,
                             lastContext, inflight, nRequests>>]_vars
    /\ [](/\ Truthy(lastContext) <=> ENABLED ToggleContext
          /\ Truthy(lastContext) <=> ContextButtonShown
          /\ ~Truthy(lastContext) => ~PanelDisplayed)

\* the panel was opened on a stored context
C16_Witness ==
    /\ PanelDisplayed
    /\ lastContext = ContextList(<<"chunk">>)
    /\ lastOp = "other"

\* C17: the request count changes only in an accepted submit, by exactly one
\* request issued; a settling request, failed or not, leaves flight and
\* issues none.
C17_NoRetry ==
    [][/\ nRequests' # nRequests => (AcceptedSubmit /\ OneRequestIssued)
       /\ Len(inflight') > Len(inflight) => (AcceptedSubmit /\ OneRequestIssued)
       /\ (AcceptedSubmit /\ messages' # messages) => OneRequestIssued
       /\ Settled => (nRequests' = nRequests /\ Len(inflight') = Len(inflight) - 1)
      ]_vars

\* the one request failed: nothing is in flight and the count is still one
C17_Witness ==
    /\ nRequests = 1
    /\ inflight = <<>>
    /\ lastOp = "settled"
    /\ delivered.kind = "rejected"
    /\ LastMessage.type = "error"

\* C18: the stored context changes only in clearHistory or when a response
\* carrying a context list arrives; a response without one and a failure
\* leave it as it was.
C18_ContextKeptWithoutList ==
    [][/\ lastContext' # lastContext =>
            \/ lastOp' = "clearHistory"
            \/ (Settled /\ DeliveredContext(delivered'))
       /\ (Settled /\ ~DeliveredContext(delivered')) => lastContext' = lastContext
      ]_vars

\* the second answer carried no context: the stored one is the first answer's
C18_Witness ==
    /\ lastOp = "settled"
    /\ nRequests = 2
    /\ Len(messages) = 5
    /\ LastMessage.type = "bot"
    /\ delivered.kind = "resolved"
    /\ ~delivered.data.context_used.present
    /\ lastContext = ContextList(<<"chunk">>)

\* C19: while the list still starts with the initial greeting (clearHistory
\* has not run), message k has id k, the messages after the greeting are user
\* messages at even places and bot or error messages at odd places, and the
\* list ends with a user message exactly when loading is true.
C19_AlternatingWithoutClear ==
    messages[1] = InitialGreeting =>
        /\ \A k \in 2..Len(messages) :
              /\ messages[k].id = k
              /\ (k % 2 = 0) => messages[k].type = "user"
              /\ (k % 2 = 1) => messages[k].type \in {"bot", "error"}
        /\ loading <=> LastMessage.type = "user"
        /\ loading <=> Len(messages) % 2 = 0

\* two exchanges, the first failed, the second answered
C19_Witness ==
    /\ messages[1] = InitialGreeting
    /\ Len(messages) = 5
    /\ messages[3].type = "error"
    /\ messages[5].type = "bot"
    /\ ~loading

\* C20: clearHistory leaves input, loading, useRag, topK, showContext and the
\* pending calls unchanged; and a response with a context list arriving
\* while showContext is true and no context is stored puts the panel on
\* display, with no toggle.
C20_ClearKeepsTheRest ==
    [][/\ lastOp' = "clearHistory" =>
            UNCHANGED <<input, loading, useRag, topK, showContext, inflight, nRequests>>
       /\ (showContext /\ ~Truthy(lastContext) /\ Settled /\ DeliveredContext(delivered'))
            => (PanelDisplayed' /\ ~PanelDisplayed)
      ]_vars

\* after a clear, the answer to the next question brought the panel back
C20_Witness ==
    /\ lastOp = "settled"
    /\ messages[1] = ClearedGreeting
    /\ Len(messages) = 3
    /\ messages[2].type = "user"
    /\ PanelDisplayed

====
